---- MODULE Spec2Model ----
(***************************************************************************)
(* A model of src/youtube_music_downloader.py (class                       *)
(* YouTubeMusicDownloader): the metadata resolver (enhance_metadata,       *)
(* has_non_latin_chars, clean_artist_name), the thumbnail selection        *)
(* (get_best_thumbnail_url) and the cover art pipeline                     *)
(* (clean_thumbnail_image, auto_crop_black_bars, enhance_image_quality).   *)
(*                                                                         *)
(* A Python str is modelled as a sequence of characters.  A character is a *)
(* one-character string ("a", " ", "\n") or, outside ASCII, the token      *)
(* "U+XXXX" naming its code point ("U+6771").  None is a value of its own. *)
(***************************************************************************)
EXTENDS Integers, Sequences, FiniteSets, TLC

VARIABLES
    artistArg,   \* clean_artist_name: the argument of the first call
    cleaned,     \* clean_artist_name(artistArg), once called
    recleaned,   \* clean_artist_name(cleaned), once called
    info_dict,   \* enhance_metadata: the raw info record
    metadata,    \* enhance_metadata(info_dict), once called
    thumb_info,  \* get_best_thumbnail_url: the info record (thumbnails, thumbnail)
    thumb_ret,   \* what get_best_thumbnail_url returned, once called
    image_data,  \* clean_thumbnail_image: the input bytes
    img,         \* clean_thumbnail_image: the local img
    pc,          \* clean_thumbnail_image: the position in the function
    image_ret,   \* what clean_thumbnail_image returned, once it has
    raised,      \* clean_thumbnail_image: the steps that raised, in order
    fn,          \* the download flow: the method called
    format_type, \* its format_type argument
    source,      \* what yt-dlp has for the url: the entries and their files
    fs,          \* the files of the download directory, by name
    dpc,         \* the position in the flow
    entries,     \* download_playlist: the local entries
    cur,         \* the track in hand: its number and the locals of its flow
    successful_downloads,   \* download_playlist: the local counter
    failed_downloads,       \* download_playlist: the local counter
    events       \* what the flow has done so far, in order

vars == <<artistArg, cleaned, recleaned, info_dict, metadata, thumb_info,
          thumb_ret, image_data, img, pc, image_ret, raised,
          fn, format_type, source, fs, dpc, entries, cur,
          successful_downloads, failed_downloads, events>>

cleanVars == <<artistArg, cleaned, recleaned>>
metaVars  == <<info_dict, metadata>>
thumbVars == <<thumb_info, thumb_ret>>
imageVars == <<image_data, img, pc, image_ret, raised>>
downloadVars == <<fn, format_type, source, fs, dpc, entries, cur,
                  successful_downloads, failed_downloads, events>>

(***************************************************************************)
(* Python values.                                                          *)
(***************************************************************************)
\* Python's None (an absent dict key read with .get).
None == <<"None">>

\* The value of a variable of a component that is not running.
Idle == <<"Idle">>

\* The same for a variable that holds a record.
IdleRec == [idle |-> TRUE]

\* No download flow is running.
DownloadIdle ==
    /\ fn = "idle" /\ format_type = "idle" /\ source = IdleRec /\ fs = {}
    /\ dpc = "idle" /\ entries = <<>> /\ cur = IdleRec
    /\ successful_downloads = 0 /\ failed_downloads = 0 /\ events = <<>>

\* A str literal as a sequence of one-character strings.
Chars(s) == [i \in 1..Len(s) |-> SubSeq(s, i, i)]

\* bool(v) for a str or None: None and '' are falsy.
Truthy(v) == v # None /\ v # <<>>

\* a or b
Or(a, b) == IF Truthy(a) THEN a ELSE b

\* dict.get(key, default) on a record whose absent keys hold None.
Get(d, key, default) == IF d[key] = None THEN default ELSE d[key]

(***************************************************************************)
(* Characters: ord(), str.lower(), whitespace.                             *)
(***************************************************************************)
\* The ASCII characters 32..126 in code order.  A string cannot hold the
\* grave accent (96): its place holds a second "_", which IndexIn never finds.
Printable ==
    " !\"#$%&'()*+,-./0123456789:;<=>?@ABCDEFGHIJKLMNOPQRSTUVWXYZ[\\]^__abcdefghijklmnopqrstuvwxyz{|}~"

HexDigits == "0123456789ABCDEF"

\* str.index(c) + 1
IndexIn(str, c) ==
    CHOOSE i \in 1..Len(str) :
        /\ SubSeq(str, i, i) = c
        /\ \A k \in 1..(i - 1) : SubSeq(str, k, k) # c

HexVal(d) == IndexIn(HexDigits, d) - 1

\* ord(c) of the ASCII characters 32..126, tabulated
AsciiOrd ==
    [c \in {SubSeq(Printable, i, i) : i \in 1..Len(Printable)} |-> IndexIn(Printable, c) + 31]

\* ord(c)
Ord(c) ==
    IF Len(c) = 6
    THEN 4096 * HexVal(SubSeq(c, 3, 3)) + 256 * HexVal(SubSeq(c, 4, 4))
         + 16 * HexVal(SubSeq(c, 5, 5)) + HexVal(SubSeq(c, 6, 6))
    ELSE IF c = "\n" THEN 10
    ELSE IF c = "\t" THEN 9
    ELSE AsciiOrd[c]

UpperCase == "ABCDEFGHIJKLMNOPQRSTUVWXYZ"

LowerCase == "abcdefghijklmnopqrstuvwxyz"

\* c.lower() of the letters A..Z, tabulated
LowerOf ==
    [c \in {SubSeq(UpperCase, i, i) : i \in 1..Len(UpperCase)} |->
        SubSeq(LowerCase, IndexIn(UpperCase, c), IndexIn(UpperCase, c))]

\* c.lower() of one character.  Of the characters the model uses, only A..Z have
\* a lower case of their own.
LowerChar(c) == IF c \in DOMAIN LowerOf THEN LowerOf[c] ELSE c

\* s.lower()
Lower(s) == [i \in 1..Len(s) |-> LowerChar(s[i])]

\* str.isspace() of one character, as str.strip() uses it.
IsSpace(c) == c \in {" ", "\n", "\t", "U+00A0", "U+3000"}

(***************************************************************************)
(* str operations.                                                         *)
(***************************************************************************)
\* s[i-1:].startswith(p), i counted from 1
MatchAt(s, p, i) ==
    /\ i + Len(p) - 1 <= Len(s)
    /\ SubSeq(s, i, i + Len(p) - 1) = p

\* s.find(p, i-1) + 1: the first match of p at or after position i, 0 if none
Find(s, p, i) ==
    LET hits == {j \in i..(Len(s) - Len(p) + 1) : MatchAt(s, p, j)}
    IN  IF hits = {} THEN 0 ELSE CHOOSE j \in hits : \A k \in hits : j <= k

\* p in s
Contains(s, p) == Find(s, p, 1) # 0

RECURSIVE ReplaceFrom(_, _, _)
ReplaceFrom(s, p, i) ==
    LET j == Find(s, p, i)
    IN  IF j = 0 THEN SubSeq(s, i, Len(s))
        ELSE SubSeq(s, i, j - 1) \o ReplaceFrom(s, p, j + Len(p))

\* s.replace(p, ''): the non-overlapping matches of p, left to right
Remove(s, p) == ReplaceFrom(s, p, 1)

RECURSIVE SplitFrom(_, _, _)
SplitFrom(s, sep, i) ==
    LET j == Find(s, sep, i)
    IN  IF j = 0 THEN <<SubSeq(s, i, Len(s))>>
        ELSE <<SubSeq(s, i, j - 1)>> \o SplitFrom(s, sep, j + Len(sep))

\* s.split(sep)
Split(s, sep) == SplitFrom(s, sep, 1)

\* s.split(sep, 1)
Split1(s, sep) ==
    LET j == Find(s, sep, 1)
    IN  IF j = 0 THEN <<s>>
        ELSE <<SubSeq(s, 1, j - 1), SubSeq(s, j + Len(sep), Len(s))>>

\* s.strip()
Strip(s) ==
    LET keep == {i \in 1..Len(s) : ~IsSpace(s[i])}
    IN  IF keep = {} THEN <<>>
        ELSE SubSeq(s, CHOOSE i \in keep : \A k \in keep : i <= k,
                       CHOOSE i \in keep : \A k \in keep : i >= k)

(***************************************************************************)
(* has_non_latin_chars                                                     *)
(***************************************************************************)
has_non_latin_chars(text) ==
    IF ~Truthy(text) THEN FALSE
    ELSE \E i \in 1..Len(text) :
            LET code == Ord(text[i])
            IN  \/ 12352 <= code /\ code <= 12447    \* 0x3040..0x309F Hiragana
                \/ 12448 <= code /\ code <= 12543    \* 0x30A0..0x30FF Katakana
                \/ 19968 <= code /\ code <= 40959    \* 0x4E00..0x9FFF CJK
                \/ 44032 <= code /\ code <= 55215    \* 0xAC00..0xD7AF Hangul

(***************************************************************************)
(* clean_artist_name                                                       *)
(***************************************************************************)
patterns_to_remove == <<
    Chars(" - Topic"),
    Chars(" Topic"),
    Chars("VEVO"),
    Chars(" Official"),
    Chars(" Official Channel"),
    Chars(" Official YouTube Channel"),
    Chars(" Official Music Video"),
    Chars(" Official Video"),
    Chars(" Official Audio"),
    Chars(" (Official)"),
    Chars("Official ") >>

RECURSIVE RemoveAll(_, _)
\* for pattern in patterns: cleaned = cleaned.replace(pattern, '')
RemoveAll(s, patterns) ==
    IF patterns = <<>> THEN s
    ELSE RemoveAll(Remove(s, Head(patterns)), Tail(patterns))

clean_artist_name(artist) ==
    IF ~Truthy(artist) THEN Chars("Unknown Artist")
    ELSE Strip(RemoveAll(artist, patterns_to_remove))

(***************************************************************************)
(* enhance_metadata                                                        *)
(***************************************************************************)
\* str(n) for an int n >= 0
RECURSIVE IntToStr(_)
IntToStr(n) ==
    IF n < 10 THEN <<SubSeq("0123456789", n + 1, n + 1)>>
    ELSE IntToStr(n \div 10) \o <<SubSeq("0123456789", (n % 10) + 1, (n % 10) + 1)>>

\* [line for line in description.split('\n') if pattern in line]
RECURSIVE LinesWith(_, _)
LinesWith(lines, pattern) ==
    IF lines = <<>> THEN <<>>
    ELSE (IF Contains(Head(lines), pattern) THEN <<Head(lines)>> ELSE <<>>)
         \o LinesWith(Tail(lines), pattern)

\* lines[0].split(pattern)[1].strip().split('\n')[0].split('•')[0].strip()
AfterMarker(line, pattern) ==
    Strip(Split(Split(Strip(Split(line, pattern)[2]), <<"\n">>)[1], <<"U+2022">>)[1])

artist_patterns == <<Chars("Artist:"), Chars("Artista:"), Chars("By:"), Chars("Por:")>>

album_patterns == <<Chars("Album:"), <<"U+00C1">> \o Chars("lbum:")>>

\* Step 2: a CJK artist is replaced by the left segment of track (or of alt_title,
\* when track is empty) if that value holds ' - ' and the segment is CJK-free.
ArtistStep2(info, artist) ==
    IF Truthy(artist) /\ has_non_latin_chars(artist)
    THEN LET alt_artist == Or(Get(info, "track", None), Get(info, "alt_title", None))
         IN  IF Truthy(alt_artist) /\ Contains(alt_artist, Chars(" - "))
             THEN LET potential == Strip(Split(alt_artist, Chars(" - "))[1])
                  IN  IF ~has_non_latin_chars(potential) THEN potential ELSE artist
             ELSE artist
    ELSE artist

\* ArtistStep3 without its `not artist` test: the title's left segment always wins.
ArtistStep3_AlwaysSplit(title, artist) ==
    IF Contains(title, Chars(" - "))
    THEN LET parts == Split1(title, Chars(" - "))
         IN  IF Len(parts) = 2 /\ Len(Strip(parts[1])) < 50 THEN Strip(parts[1]) ELSE artist
    ELSE artist

\* Step 3: with no artist, the left segment of "Artist - Title" when under 50 long.
ArtistStep3(title, artist) ==
    IF ~Truthy(artist) /\ Contains(title, Chars(" - "))
    THEN LET parts == Split1(title, Chars(" - "))
         IN  IF Len(parts) = 2
             THEN LET potential_artist == Strip(parts[1])
                  IN  IF Len(potential_artist) < 50 THEN potential_artist ELSE artist
             ELSE artist
    ELSE artist

RECURSIVE ArtistFromDescription(_, _, _)
\* for pattern in patterns: ... the first CJK-free text after a marker, then break
ArtistFromDescription(description, patterns, artist) ==
    IF patterns = <<>> THEN artist
    ELSE LET pattern == Head(patterns)
             lines == LinesWith(Split(description, <<"\n">>), pattern)
         IN  IF Contains(description, pattern) /\ lines # <<>>
                /\ ~has_non_latin_chars(AfterMarker(lines[1], pattern))
             THEN AfterMarker(lines[1], pattern)
             ELSE ArtistFromDescription(description, Tail(patterns), artist)

\* Step 4: the description is searched when there is no artist or it holds CJK.
ArtistStep4(info, artist) ==
    IF ~Truthy(artist) \/ has_non_latin_chars(artist)
    THEN ArtistFromDescription(Get(info, "description", <<>>), artist_patterns, artist)
    ELSE artist

\* ArtistStep5 without its `not artist` test: the uploader always wins.
ArtistStep5_AlwaysUploader(info, artist) ==
    Or(Get(info, "uploader", <<>>), Get(info, "channel", <<>>))

\* Step 5: uploader, then channel, as the last resort.
ArtistStep5(info, artist) ==
    IF ~Truthy(artist)
    THEN Or(Get(info, "uploader", <<>>), Get(info, "channel", <<>>))
    ELSE artist

\* The artist before the cleanup (lines 481-519).
ArtistCandidate(info) ==
    LET title == Get(info, "title", <<>>)
        a1 == Or(Get(info, "artist", None), Get(info, "creator", None))
        a2 == ArtistStep2(info, a1)
        a3 == ArtistStep3(title, a2)
        a4 == ArtistStep4(info, a3)
    IN  ArtistStep5(info, a4)

RECURSIVE AlbumFromDescription_SkipEmpty(_, _, _)
\* AlbumFromDescription that goes on to the next pattern when the text is empty.
AlbumFromDescription_SkipEmpty(description, patterns, album) ==
    IF patterns = <<>> THEN album
    ELSE LET pattern == Head(patterns)
             lines == LinesWith(Split(description, <<"\n">>), pattern)
         IN  IF Contains(description, pattern) /\ lines # <<>>
                /\ Truthy(AfterMarker(lines[1], pattern))
             THEN AfterMarker(lines[1], pattern)
             ELSE AlbumFromDescription_SkipEmpty(description, Tail(patterns), album)

RECURSIVE AlbumFromDescription(_, _, _)
\* for pattern in ['Album:', 'Álbum:']: the text after the first marker found, then break
AlbumFromDescription(description, patterns, album) ==
    IF patterns = <<>> THEN album
    ELSE LET pattern == Head(patterns)
             lines == LinesWith(Split(description, <<"\n">>), pattern)
         IN  IF Contains(description, pattern) /\ lines # <<>>
             THEN AfterMarker(lines[1], pattern)
             ELSE AlbumFromDescription(description, Tail(patterns), album)

ResolveAlbum(info) ==
    LET title == Get(info, "title", <<>>)
        album == Get(info, "album", None)
    IN  IF ~Truthy(album)
        THEN LET found == AlbumFromDescription(Get(info, "description", <<>>),
                                               album_patterns, album)
             IN  IF ~Truthy(found) THEN Or(Get(info, "album", None), title) ELSE found
        ELSE album

\* ResolveDate with the two sources in the other order: upload_date first.
ResolveDate_UploadFirst(info) ==
    LET release_year == info["release_year"]
        upload_date == Get(info, "upload_date", None)
    IN  IF Truthy(upload_date)
        THEN SubSeq(upload_date, 1, IF Len(upload_date) < 4 THEN Len(upload_date) ELSE 4)
        ELSE IF release_year # 0 THEN IntToStr(release_year) ELSE None

\* metadata['date'], None when the key is not set.  release_year is an int; an
\* absent release_year is held as 0, which `if release_year:` treats as None.
ResolveDate(info) ==
    LET release_year == info["release_year"]
        upload_date == Get(info, "upload_date", None)
    IN  IF release_year # 0 THEN IntToStr(release_year)
        ELSE IF Truthy(upload_date)
             THEN SubSeq(upload_date, 1, IF Len(upload_date) < 4 THEN Len(upload_date) ELSE 4)
             ELSE None

\* metadata['duration'], None when the key is not set.  duration is an int; an
\* absent duration is held as 0, which `if duration:` treats as None.
ResolveDuration(info) ==
    LET duration == info["duration"]
    IN  IF duration # 0 THEN IntToStr(duration) ELSE None

\* ResolveGenre with the test negated: the first category unless 'Music' is one.
ResolveGenre_FirstUnlessMusic(info) ==
    LET categories == info["categories"]
    IN  IF categories # <<>>
           /\ ~\E i \in 1..Len(categories) : categories[i] = Chars("Music")
        THEN categories[1]
        ELSE Chars("Music")

\* genre = categories[0] if 'Music' in categories else genre.  categories is a
\* list of str; an absent categories is held as the empty list, its default.
ResolveGenre(info) ==
    LET categories == info["categories"]
    IN  IF categories # <<>>
           /\ \E i \in 1..Len(categories) : categories[i] = Chars("Music")
        THEN categories[1]
        ELSE Chars("Music")

enhance_metadata(info) ==
    [ title    |-> Get(info, "title", <<>>),
      artist   |-> clean_artist_name(ArtistCandidate(info)),
      album    |-> ResolveAlbum(info),
      date     |-> ResolveDate(info),
      duration |-> ResolveDuration(info),
      genre    |-> ResolveGenre(info) ]


(***************************************************************************)
(* The strings clean_artist_name is called with: up to MaxFrags fragments  *)
(* of channel names, joined.                                               *)
(***************************************************************************)
MaxFrags == 3

NameFrags == {
    Chars("VEVO"), Chars("VE"), Chars("VO"), Chars(" - Topic"),
    Chars(" Official"), Chars("Official "), Chars("Ado"), <<"U+6771">>, Chars(" ") }

RECURSIVE Joined(_)
\* The concatenations of at most n fragments.
Joined(n) ==
    IF n = 0 THEN {<<>>}
    ELSE Joined(n - 1) \cup {s \o f : s \in Joined(n - 1), f \in NameFrags}

ArtistNames == Joined(MaxFrags) \cup {None}

CleanInit ==
    /\ artistArg \in ArtistNames
    /\ cleaned = Idle
    /\ recleaned = Idle
    /\ info_dict = IdleRec /\ metadata = IdleRec
    /\ thumb_info = IdleRec /\ thumb_ret = Idle
    /\ image_data = IdleRec /\ img = IdleRec /\ pc = "idle" /\ image_ret = IdleRec
    /\ raised = <<>>
    /\ DownloadIdle

\* cleaned = self.clean_artist_name(artist)
CleanArtistName ==
    /\ cleaned = Idle
    /\ cleaned' = clean_artist_name(artistArg)
    /\ UNCHANGED <<artistArg, recleaned, metaVars, thumbVars, imageVars, downloadVars>>

\* self.clean_artist_name(cleaned): the cleanup applied to its own result
CleanArtistNameAgain ==
    /\ cleaned # Idle /\ recleaned = Idle
    /\ recleaned' = clean_artist_name(cleaned)
    /\ UNCHANGED <<artistArg, cleaned, metaVars, thumbVars, imageVars, downloadVars>>

CleanNext == CleanArtistName \/ CleanArtistNameAgain

SpecClean == CleanInit /\ [][CleanNext]_vars

(***************************************************************************)
(* The info records enhance_metadata is called with: at most MaxPresent of *)
(* the fields it reads are present, each with one of the values below; the *)
(* other fields are absent.                                                *)
(***************************************************************************)
MaxPresent == 3

\* A left segment of 50 characters: too long for step 3.
LongName == Chars("The Fifty Character Long Name Of A Radio Programme")

FieldValues ==
    [ title       |-> { <<>>, Chars("Song"), Chars("Ado - Song"),
                        <<"U+6771", "U+4EAC">> \o Chars(" - Song"),
                        LongName \o Chars(" - Song"), Chars(" - Song"),
                        Chars("Ado Official - Song - Live") },
      artist      |-> { <<>>, Chars("Ado"), <<"U+6771", "U+4EAC">>, Chars("VEVO"),
                        Chars("VEVEVOVO"), Chars(" ") },
      creator     |-> { Chars("Ado Official"), <<"U+30A2", "U+30C9">> },
      track       |-> { Chars("Song"), Chars("Tokyo - Song"),
                        <<"U+6771", "U+4EAC">> \o Chars(" - Song"), Chars(" - Song") },
      alt_title   |-> { Chars("Tokyo - Alt"), Chars("Alt") },
      description |-> { Chars("Artist: Desc ") \o <<"U+2022">> \o Chars(" x\nBy: Other"),
                        Chars("Artist: ") \o <<"U+C544">> \o Chars("\nPor: Lat"),
                        Chars("Artist:"),
                        Chars("By: ") \o <<"U+3042">>,
                        Chars("Album: LP\nArtist: A Artist: B"),
                        Chars("Album:\n") \o <<"U+00C1">> \o Chars("lbum: Disco"),
                        <<"U+00C1">> \o Chars("lbum: Disco ") \o <<"U+2022">>
                            \o Chars(" 2019\nAlbum: LP Album: EP") },
      uploader    |-> { <<>>, Chars("Ado - Topic"), <<"U+6771", "U+4EAC">>, Chars("VEVO") },
      channel     |-> { Chars("Chan Official"), <<"U+6771">> },
      album       |-> { <<>>, Chars("First Album") },
      upload_date |-> { <<>>, Chars("20200101"), Chars("199") } ]

\* release_year: absent (0) or a year.
ReleaseYears == {0, 2019}

\* categories: absent or empty (the empty list), or a list of category names.
Categories == { <<>>, <<Chars("Music")>>, <<Chars("Entertainment"), Chars("Music")>>,
                <<Chars("Gaming"), Chars("Comedy")>> }

\* The fields enhance_metadata reads, but duration.
Fields ==
    { "title", "artist", "creator", "track", "alt_title", "description", "uploader",
      "channel", "album", "upload_date", "release_year", "categories" }

\* What the record holds for a field that is absent.
AbsentValue(f) ==
    IF f = "release_year" THEN 0 ELSE IF f = "categories" THEN <<>> ELSE None

\* The values of a field that is present.
PresentValues(f) ==
    IF f = "release_year" THEN ReleaseYears \ {0}
    ELSE IF f = "categories" THEN Categories \ {<<>>}
    ELSE FieldValues[f]

\* The values of field f when the fields of `present` are the present ones.
ValuesOf(present, f) ==
    IF f \in present THEN PresentValues(f) ELSE {AbsentValue(f)}

InfoRecords ==
    UNION { [ title : ValuesOf(present, "title"), artist : ValuesOf(present, "artist"),
              creator : ValuesOf(present, "creator"), track : ValuesOf(present, "track"),
              alt_title : ValuesOf(present, "alt_title"),
              description : ValuesOf(present, "description"),
              uploader : ValuesOf(present, "uploader"),
              channel : ValuesOf(present, "channel"),
              album : ValuesOf(present, "album"),
              upload_date : ValuesOf(present, "upload_date"),
              release_year : ValuesOf(present, "release_year"),
              categories : ValuesOf(present, "categories"),
              duration : {0} ] :
            present \in {s \in SUBSET Fields : Cardinality(s) <= MaxPresent} }

MetaInit ==
    /\ info_dict \in InfoRecords
    /\ metadata = IdleRec
    /\ artistArg = Idle /\ cleaned = Idle /\ recleaned = Idle
    /\ thumb_info = IdleRec /\ thumb_ret = Idle
    /\ image_data = IdleRec /\ img = IdleRec /\ pc = "idle" /\ image_ret = IdleRec
    /\ raised = <<>>
    /\ DownloadIdle

\* enhanced_metadata = self.enhance_metadata(info)
EnhanceMetadata ==
    /\ metadata = IdleRec
    /\ metadata' = enhance_metadata(info_dict)
    /\ UNCHANGED <<info_dict, cleanVars, thumbVars, imageVars, downloadVars>>

MetaNext == EnhanceMetadata

SpecMeta == MetaInit /\ [][MetaNext]_vars

(***************************************************************************)
(* get_best_thumbnail_url                                                  *)
(*                                                                         *)
(* A thumbnail is a record [id, url, width, height]: id and url are a str  *)
(* or None (the key is absent); width and height are ints, 0 when the key  *)
(* is absent (the default of thumb.get('width', 0)).  The info record      *)
(* holds has_thumbnails (the key 'thumbnails' is present), thumbnails and  *)
(* thumbnail (the fallback url, or None).                                  *)
(***************************************************************************)
preferred_patterns == <<
    Chars("maxresdefault"),
    Chars("maxres"),
    Chars("hq720"),
    Chars("sddefault"),
    Chars("hqdefault"),
    Chars("mqdefault"),
    Chars("default") >>

\* pattern in thumb_id or pattern in thumb_url
PatternIn(thumb, pattern) ==
    \/ Contains(Lower(Get(thumb, "id", <<>>)), pattern)
    \/ Contains(Lower(Get(thumb, "url", <<>>)), pattern)

\* The inner loop: the position of the first thumbnail that holds the pattern, or 0.
FirstWith(thumbnails, pattern) ==
    LET hits == {j \in 1..Len(thumbnails) : PatternIn(thumbnails[j], pattern)}
    IN  IF hits = {} THEN 0 ELSE CHOOSE j \in hits : \A k \in hits : j <= k

\* The loops swapped: the first thumbnail that holds any pattern.
SelectByPattern_ThumbFirst(thumbnails, patterns) ==
    LET hits == {j \in 1..Len(thumbnails) :
                    \E i \in 1..Len(patterns) : PatternIn(thumbnails[j], patterns[i])}
    IN  IF hits = {} THEN 0 ELSE CHOOSE j \in hits : \A k \in hits : j <= k

RECURSIVE SelectByPattern(_, _)
\* for pattern in preferred_patterns: for thumb in thumbnails: ... return
\* The position of the thumbnail returned, or 0 when the loops end without one.
SelectByPattern(thumbnails, patterns) ==
    IF patterns = <<>> THEN 0
    ELSE IF FirstWith(thumbnails, Head(patterns)) # 0
         THEN FirstWith(thumbnails, Head(patterns))
         ELSE SelectByPattern(thumbnails, Tail(patterns))

\* The sort key: x.get('width', 0) * x.get('height', 0)
Area(thumb) == thumb.width * thumb.height

\* [t for t in thumbnails if t.get('width', 0) > 0 and t.get('height', 0) > 0]
RECURSIVE WithSize(_)
WithSize(thumbnails) ==
    IF thumbnails = <<>> THEN <<>>
    ELSE (IF Head(thumbnails).width > 0 /\ Head(thumbnails).height > 0
          THEN <<Head(thumbnails)>> ELSE <<>>) \o WithSize(Tail(thumbnails))

\* An unstable insertion: t goes before the elements of equal key.
InsertDesc_BeforeEqual(sorted, t) ==
    LET n == Cardinality({j \in 1..Len(sorted) : Area(sorted[j]) > Area(t)})
    IN  SubSeq(sorted, 1, n) \o <<t>> \o SubSeq(sorted, n + 1, Len(sorted))

\* t inserted into a list sorted by decreasing key, after the elements of equal key
\* (list.sort is stable, also with reverse=True).
InsertDesc(sorted, t) ==
    LET n == Cardinality({j \in 1..Len(sorted) : Area(sorted[j]) >= Area(t)})
    IN  SubSeq(sorted, 1, n) \o <<t>> \o SubSeq(sorted, n + 1, Len(sorted))

RECURSIVE SortDesc(_, _)
\* thumbnails_with_size.sort(key=area, reverse=True)
SortDesc(sorted, rest) ==
    IF rest = <<>> THEN sorted
    ELSE SortDesc(InsertDesc(sorted, Head(rest)), Tail(rest))

\* get_best_thumbnail_url that returns the fallback when no pattern matches.
get_best_thumbnail_url_FallbackFirst(info) ==
    LET thumbnails == IF info.has_thumbnails THEN info.thumbnails ELSE <<>>
        byPattern == SelectByPattern(thumbnails, preferred_patterns)
    IN  IF thumbnails = <<>> \/ byPattern = 0 THEN info.thumbnail
        ELSE thumbnails[byPattern].url

get_best_thumbnail_url(info) ==
    LET thumbnails == IF info.has_thumbnails THEN info.thumbnails ELSE <<>>
        byPattern == SelectByPattern(thumbnails, preferred_patterns)
        thumbnails_with_size == SortDesc(<<>>, WithSize(thumbnails))
    IN  IF thumbnails = <<>> THEN info.thumbnail
        ELSE IF byPattern # 0 THEN thumbnails[byPattern].url
        ELSE IF thumbnails_with_size # <<>> THEN thumbnails_with_size[1].url
        ELSE thumbnails[1].url

(***************************************************************************)
(* The info records get_best_thumbnail_url is called with: at most         *)
(* MaxThumbs thumbnails, each one of Thumbs, and a fallback or none.       *)
(***************************************************************************)
MaxThumbs == 3

Thumb(id, url, width, height) ==
    [id |-> id, url |-> url, width |-> width, height |-> height]

Thumbs == {
    Thumb(Chars("default"), Chars("v/default.jpg"), 120, 90),
    Thumb(Chars("maxresdefault"), Chars("v/maxresdefault.jpg"), 1920, 1080),
    Thumb(None, Chars("v/HQ720.jpg"), 0, 0),
    Thumb(Chars("hq720"), Chars("w/5.jpg"), 0, 0),
    Thumb(Chars("SDDefault"), Chars("v/4.webp"), 640, 0),
    Thumb(Chars("0"), Chars("v/0.jpg"), 800, 600),
    Thumb(Chars("1"), Chars("v/1.jpg"), 1280, 720),
    Thumb(Chars("2"), Chars("v/2.jpg"), 600, 800),
    Thumb(Chars("3"), None, 0, 0),
    Thumb(Chars("4"), Chars("v/6.jpg"), 0, 300) }

RECURSIVE ThumbLists(_)
\* The lists of at most n thumbnails.
ThumbLists(n) ==
    IF n = 0 THEN {<<>>}
    ELSE ThumbLists(n - 1) \cup {Append(l, t) : l \in ThumbLists(n - 1), t \in Thumbs}

ThumbInit ==
    /\ thumb_info \in
          [has_thumbnails : {TRUE}, thumbnails : ThumbLists(MaxThumbs),
           thumbnail : {None, Chars("v/fallback.jpg")}]
          \cup [has_thumbnails : {FALSE}, thumbnails : {<<>>},
                thumbnail : {None, Chars("v/fallback.jpg")}]
    /\ thumb_ret = Idle
    /\ artistArg = Idle /\ cleaned = Idle /\ recleaned = Idle
    /\ info_dict = IdleRec /\ metadata = IdleRec
    /\ image_data = IdleRec /\ img = IdleRec /\ pc = "idle" /\ image_ret = IdleRec
    /\ raised = <<>>
    /\ DownloadIdle

\* thumbnail_url = self.get_best_thumbnail_url(info)
GetBestThumbnailUrl ==
    /\ thumb_ret = Idle
    /\ thumb_ret' = get_best_thumbnail_url(thumb_info)
    /\ UNCHANGED <<thumb_info, cleanVars, metaVars, imageVars, downloadVars>>

ThumbNext == GetBestThumbnailUrl

SpecThumb == ThumbInit /\ [][ThumbNext]_vars


(***************************************************************************)
(* The cover art pipeline: clean_thumbnail_image, auto_crop_black_bars,    *)
(* enhance_image_quality.                                                  *)
(*                                                                         *)
(* A PIL image is a record: width, height, mode, the enhancements applied  *)
(* to it, and its picture, a frame: a border of luminance `border`,        *)
(* mt rows wide at the top, mb at the bottom, ml columns at the left and   *)
(* mr at the right, around an inside of luminance `inner`.  Bytes are a    *)
(* record: sig (the first bytes), decodable (Image.open accepts them) and  *)
(* the image they encode.                                                  *)
(***************************************************************************)
target_size == 1000

threshold == 25

Max(a, b) == IF a >= b THEN a ELSE b

Min(a, b) == IF a <= b THEN a ELSE b

Abs(a) == IF a >= 0 THEN a ELSE 0 - a

\* The sum of the luminance of row y (0-based) of the picture.
RowSum(im, y) ==
    IF y < im.mt \/ y >= im.height - im.mb
    THEN im.border * im.width
    ELSE im.border * (im.ml + im.mr) + im.inner * (im.width - im.ml - im.mr)

\* The sum of the luminance of column x (0-based) of the picture.
ColSum(im, x) ==
    IF x < im.ml \/ x >= im.width - im.mr
    THEN im.border * im.height
    ELSE im.border * (im.mt + im.mb) + im.inner * (im.height - im.mt - im.mb)

\* row_means[y] > threshold
ContentRow(im, y) == RowSum(im, y) > threshold * im.width

\* col_means[x] > threshold
ContentCol(im, x) == ColSum(im, x) > threshold * im.height

\* img.crop((left, top, right, bottom)): the box, right and bottom excluded
Crop(im, left, top, right, bottom) ==
    [im EXCEPT !.width = right - left,
               !.height = bottom - top,
               !.ml = Min(Max(im.ml - left, 0), right - left),
               !.mr = Min(Max(right - (im.width - im.mr), 0), right - left),
               !.mt = Min(Max(im.mt - top, 0), bottom - top),
               !.mb = Min(Max(bottom - (im.height - im.mb), 0), bottom - top)]

\* The test with the rows and columns removed on each side counted alike:
\* more than 5% of the rows below the last content row, of the columns
\* right of the last content column.
BarsSignificant_ByMargin(im, left, top, right, bottom) ==
    \/ 20 * top > im.height
    \/ 20 * (im.height - 1 - bottom) > im.height
    \/ 20 * left > im.width
    \/ 20 * (im.width - 1 - right) > im.width

\* Lines 169-170: top > height * 0.05 or bottom < height * 0.95 or
\* left > width * 0.05 or right < width * 0.95, in whole numbers (the floating
\* point products decide alike for every height and width up to 5000).
BarsSignificant(im, left, top, right, bottom) ==
    \/ 20 * top > im.height
    \/ 20 * bottom < 19 * im.height
    \/ 20 * left > im.width
    \/ 20 * right < 19 * im.width

\* The numpy branch of auto_crop_black_bars (lines 152-177).
AutoCropNumpy(im) ==
    LET rows == 0..(im.height - 1)
        cols == 0..(im.width - 1)
    IN  IF (\E y \in rows : ContentRow(im, y)) /\ (\E x \in cols : ContentCol(im, x))
        THEN LET top == CHOOSE y \in rows :
                            ContentRow(im, y) /\ \A k \in 0..(y - 1) : ~ContentRow(im, k)
                 bottom == CHOOSE y \in rows :
                            ContentRow(im, y)
                            /\ \A k \in (y + 1)..(im.height - 1) : ~ContentRow(im, k)
                 left == CHOOSE x \in cols :
                            ContentCol(im, x) /\ \A k \in 0..(x - 1) : ~ContentCol(im, k)
                 right == CHOOSE x \in cols :
                            ContentCol(im, x)
                            /\ \A k \in (x + 1)..(im.width - 1) : ~ContentCol(im, k)
             IN  IF BarsSignificant(im, left, top, right, bottom)
                 THEN Crop(im, left, top, right + 1, bottom + 1)
                 ELSE im
        ELSE im

\* Row y holds a pixel that is not black.
NonZeroRow(im, y) ==
    IF y < im.mt \/ y >= im.height - im.mb
    THEN im.border > 0
    ELSE (im.border > 0 /\ im.ml + im.mr > 0) \/ (im.inner > 0 /\ im.width - im.ml - im.mr > 0)

\* Column x holds a pixel that is not black.
NonZeroCol(im, x) ==
    IF x < im.ml \/ x >= im.width - im.mr
    THEN im.border > 0
    ELSE (im.border > 0 /\ im.mt + im.mb > 0) \/ (im.inner > 0 /\ im.height - im.mt - im.mb > 0)

\* The branch without numpy (lines 179-184): img.getbbox() is the box of the
\* pixels that are not black, None when all are.
AutoCropBBox(im) ==
    LET rows == 0..(im.height - 1)
        cols == 0..(im.width - 1)
    IN  IF \E y \in rows : NonZeroRow(im, y)
        THEN LET top == CHOOSE y \in rows :
                            NonZeroRow(im, y) /\ \A k \in 0..(y - 1) : ~NonZeroRow(im, k)
                 bottom == CHOOSE y \in rows :
                            NonZeroRow(im, y)
                            /\ \A k \in (y + 1)..(im.height - 1) : ~NonZeroRow(im, k)
                 left == CHOOSE x \in cols :
                            NonZeroCol(im, x) /\ \A k \in 0..(x - 1) : ~NonZeroCol(im, k)
                 right == CHOOSE x \in cols :
                            NonZeroCol(im, x)
                            /\ \A k \in (x + 1)..(im.width - 1) : ~NonZeroCol(im, k)
             IN  Crop(im, left, top, right + 1, bottom + 1)
        ELSE im

\* abs(width - height) > min(width, height) * 0.1
NotNearlySquare(im) == 10 * Abs(im.width - im.height) > Min(im.width, im.height)

\* Lines 79-87: the centre square of side min(width, height).
CropToSquare(im) ==
    LET size == Min(im.width, im.height)
        left == (im.width - size) \div 2
        top == (im.height - size) \div 2
    IN  Crop(im, left, top, left + size, top + size)

\* img.resize((w, h), LANCZOS): the bars keep their share of the picture.
Resize(im, w, h) ==
    [im EXCEPT !.width = w, !.height = h,
               !.ml = (im.ml * w) \div im.width, !.mr = (im.mr * w) \div im.width,
               !.mt = (im.mt * h) \div im.height, !.mb = (im.mb * h) \div im.height]


\* if img.size[0] != target_size
NeedsResize(im) == im.width # target_size

\* img.save(output, format='JPEG', quality=95, optimize=True, progressive=True)
JpegBytes(im) ==
    [sig |-> <<255, 216>>, decodable |-> TRUE, format |-> "JPEG", image |-> im]


(***************************************************************************)
(* The byte blobs clean_thumbnail_image is called with.                    *)
(***************************************************************************)
MaxOff == 1

MaxBars == 1

\* The sides of the images: target_size and MaxOff steps of 100 around it.
Sides == {target_size + 100 * d : d \in (0 - MaxOff)..MaxOff}

\* The width of a bar on a side of the given length: 5% of it, or one more.
BarWidths(side) == {side \div 20, side \div 20 + 1}

\* A bar of one of BarWidths on at most MaxBars of the four sides.
Frames(width, height) ==
    { f \in [mt : BarWidths(height) \cup {0}, mb : BarWidths(height) \cup {0},
             ml : BarWidths(width) \cup {0}, mr : BarWidths(width) \cup {0}] :
        Cardinality({k \in {"mt", "mb", "ml", "mr"} : f[k] # 0}) <= MaxBars }

\* border and inner luminance: black bars, bright bars, a dark picture.
Luminances == {<<0, 200>>, <<30, 200>>, <<0, 20>>}

ImagesOfSize(mode, w, h) ==
    { [width |-> w, height |-> h, mode |-> mode, applied |-> <<>>,
       border |-> lum[1], inner |-> lum[2],
       mt |-> f.mt, mb |-> f.mb, ml |-> f.ml, mr |-> f.mr] :
        lum \in Luminances, f \in Frames(w, h) }

Images(mode) == UNION {ImagesOfSize(mode, wh[1], wh[2]) : wh \in Sides \X Sides}

\* JPEG files of RGB images, PNG files of RGBA images, and bytes that are no image.
Blobs ==
    {[sig |-> <<255, 216>>, decodable |-> TRUE, format |-> "JPEG", image |-> im] :
        im \in Images("RGB")}
    \cup {[sig |-> <<137, 80, 78, 71>>, decodable |-> TRUE, format |-> "PNG", image |-> im] :
        im \in Images("RGBA")}
    \cup {[sig |-> sg, decodable |-> FALSE, format |-> "none", image |-> IdleRec] :
        sg \in {<<255, 216>>, <<137, 80, 78, 71>>, <<60, 104>>, <<>>}}

ImageInit ==
    /\ image_data \in Blobs
    /\ img = IdleRec
    /\ pc = "open"
    /\ image_ret = IdleRec
    /\ raised = <<>>
    /\ artistArg = Idle /\ cleaned = Idle /\ recleaned = Idle
    /\ info_dict = IdleRec /\ metadata = IdleRec
    /\ thumb_info = IdleRec /\ thumb_ret = Idle
    /\ DownloadIdle

otherVars == <<cleanVars, metaVars, thumbVars, downloadVars>>

\* The handler without its return: the exception goes on to the caller.
ReturnOriginal_Reraise(step) ==
    /\ raised' = Append(raised, step)
    /\ pc' = "raised"
    /\ UNCHANGED <<image_data, img, image_ret, otherVars>>

\* except Exception as e: ... return image_data (lines 103-105)
ReturnOriginal(step) ==
    /\ raised' = Append(raised, step)
    /\ image_ret' = image_data
    /\ pc' = "done"
    /\ UNCHANGED <<image_data, img, otherVars>>

\* A step of clean_thumbnail_image that went well and left img as im.
Continue(im, next) ==
    /\ img' = im
    /\ pc' = next
    /\ UNCHANGED <<image_data, image_ret, raised, otherVars>>

\* A best-effort stage that caught an exception of its own and returned im.
Caught(step, im, next) ==
    /\ raised' = Append(raised, step)
    /\ img' = im
    /\ pc' = next
    /\ UNCHANGED <<image_data, image_ret, otherVars>>

\* img = Image.open(io.BytesIO(image_data))
Open ==
    /\ pc = "open"
    /\ \/ image_data.decodable /\ Continue(image_data.image, "convert")
       \/ ~image_data.decodable /\ ReturnOriginal("open")

\* if img.mode != 'RGB': img = img.convert('RGB')
Convert ==
    /\ pc = "convert"
    /\ \/ img.mode = "RGB" /\ Continue(img, "auto_crop")
       \/ img.mode # "RGB" /\ Continue([img EXCEPT !.mode = "RGB"], "auto_crop")
       \/ img.mode # "RGB" /\ ReturnOriginal("convert")

\* img = self.auto_crop_black_bars(img): with numpy, without it (ImportError),
\* or with an exception, which the stage catches before it has assigned img.
AutoCrop ==
    /\ pc = "auto_crop"
    /\ \/ Caught("auto_crop", img, "sharpen")
       \/ Continue(AutoCropNumpy(img), "sharpen")
       \/ Continue(AutoCropBBox(img), "sharpen")

\* One step of enhance_image_quality (lines 200-223): img = <the enhancement>(img),
\* or an exception, on which the stage returns img as it is by then.
EnhanceStep(at, name, next) ==
    /\ pc = at
    /\ \/ Continue([img EXCEPT !.applied = Append(img.applied, name)], next)
       \/ Caught(name, img, "square")

\* img = img.filter(ImageFilter.UnsharpMask(radius=1, percent=120, threshold=3))
Sharpen == EnhanceStep("sharpen", "UnsharpMask", "contrast")

\* img = ImageEnhance.Contrast(img).enhance(1.1)
Contrast == EnhanceStep("contrast", "Contrast", "color")

\* img = ImageEnhance.Color(img).enhance(1.05)
Color == EnhanceStep("color", "Color", "brightness")

\* img = ImageEnhance.Brightness(img).enhance(1.02)
Brightness == EnhanceStep("brightness", "Brightness", "square")

\* Lines 79-87: an image that is not nearly square is cropped to its centre square.
Square ==
    /\ pc = "square"
    /\ \/ NotNearlySquare(img) /\ Continue(CropToSquare(img), "resize")
       \/ NotNearlySquare(img) /\ ReturnOriginal("crop")
       \/ ~NotNearlySquare(img) /\ Continue(img, "resize")

\* Lines 90-94.
ResizeToTarget ==
    /\ pc = "resize"
    /\ \/ NeedsResize(img) /\ Continue(Resize(img, target_size, target_size), "save")
       \/ NeedsResize(img) /\ ReturnOriginal("resize")
       \/ ~NeedsResize(img) /\ Continue(img, "save")

\* Lines 97-101.
Save ==
    /\ pc = "save"
    /\ \/ /\ image_ret' = JpegBytes(img)
          /\ pc' = "done"
          /\ UNCHANGED <<image_data, img, raised, otherVars>>
       \/ ReturnOriginal("save")

ImageNext ==
    \/ Open \/ Convert \/ AutoCrop
    \/ Sharpen \/ Contrast \/ Color \/ Brightness
    \/ Square \/ ResizeToTarget \/ Save

SpecImage == ImageInit /\ [][ImageNext]_vars

(***************************************************************************)
(* The download flows: download_single, download_playlist and              *)
(* download_single_from_playlist, with generate_clean_filename,            *)
(* write_metadata_to_file and its three writers.                           *)
(*                                                                         *)
(* A file is a record: its name in the download directory, its tags by     *)
(* field (None for a tag that is not set), its cover pictures, whether     *)
(* mutagen can open it, and where it comes from.  fs is the set of the     *)
(* files of the directory.                                                 *)
(***************************************************************************)
TagFields == {"title", "artist", "album", "date", "genre"}

\* os.path.exists(name)
Exists(files, name) == \E f \in files : f.name = name

\* The file of that name.
FileAt(files, name) == CHOOSE f \in files : f.name = name

\* The position of the last '.' of s, 0 if it has none.
LastDot(s) ==
    LET dots == {i \in 1..Len(s) : s[i] = "."}
    IN  IF dots = {} THEN 0 ELSE CHOOSE i \in dots : \A k \in dots : i >= k

\* s.rsplit('.', 1)[0]
BeforeLastDot(s) == IF LastDot(s) = 0 THEN s ELSE SubSeq(s, 1, LastDot(s) - 1)

\* Path(p).suffix for a name p: from its last '.', unless that is its first character
Suffix(p) == IF LastDot(p) <= 1 THEN <<>> ELSE SubSeq(p, LastDot(p), Len(p))

\* Lines 752-759: prepare_filename's name with the extension of the format.
ExpectedFilename(prepared, format) ==
    IF format = "mp3" THEN BeforeLastDot(prepared) \o Chars(".mp3")
    ELSE IF format = "m4a" \/ format = "best" THEN BeforeLastDot(prepared) \o Chars(".m4a")
    ELSE IF format = "flac" THEN BeforeLastDot(prepared) \o Chars(".flac")
    ELSE prepared

\* invalid_chars = '<>:"/\\|?*', one pattern for each character
invalid_chars == [i \in 1..9 |-> <<Chars("<>:\"/\\|?*")[i]>>]

\* The new name, in the directory of the original: "{artist} - {title}{extension}".
generate_clean_filename(md, original_path) ==
    RemoveAll(md.artist, invalid_chars) \o Chars(" - ")
        \o RemoveAll(md.title, invalid_chars) \o Suffix(original_path)

\* if metadata.get(field): audio[key] = metadata[field], for the five fields
TagsAfter(tags, md) ==
    [k \in TagFields |-> IF Truthy(md[k]) THEN md[k] ELSE tags[k]]

\* Bytes are a record: sig, their first bytes, and whether they decode as an image.
CleanedJpeg == [sig |-> <<255, 216>>, decodable |-> TRUE]

\* What clean_thumbnail_image returns for the bytes: the JPEG of line 101, or the
\* bytes themselves (line 105).
CleanResults(content) ==
    {content} \cup (IF content.decodable THEN {CleanedJpeg} ELSE {})

\* Lines 380-385 and 427-432: the format from the first bytes, JPEG by default.
CoverFormat(data, jpeg, png) ==
    IF Len(data.sig) >= 2 /\ SubSeq(data.sig, 1, 2) = <<255, 216>> THEN jpeg
    ELSE IF Len(data.sig) >= 4 /\ SubSeq(data.sig, 1, 4) = <<137, 80, 78, 71>> THEN png
    ELSE jpeg

\* What requests.get(thumbnail_url, timeout=15) does: it raises (no network, a
\* timeout), or it answers with a status and a content.
Contents ==
    { [sig |-> <<255, 216>>, decodable |-> TRUE],
      [sig |-> <<137, 80, 78, 71>>, decodable |-> TRUE],
      [sig |-> <<60, 104>>, decodable |-> FALSE] }

Responses ==
    { [how |-> "raised", status_code |-> 0, content |-> IdleRec],
      [how |-> "status", status_code |-> 404, content |-> IdleRec] }
    \cup { [how |-> "ok", status_code |-> 200, content |-> c] : c \in Contents }

\* What a writer did: the file as it is afterwards, the step that raised
\* ("none", "open" or "save"), and how the fetch of the cover went ("none" when
\* there was no fetch, "raised", "status" or "ok").
Outcome(file, raisedAt, fetch) == [file |-> file, raised |-> raisedAt, fetch |-> fetch]

\* audio.save(): the file holds what audio holds, or save raises and the file
\* is as it was.
Saved(file, audio, fetch) ==
    {Outcome(audio, "none", fetch), Outcome(file, "save", fetch)}

\* The failed fetch raises out of the writer: nothing is saved.
SkipCover_Propagates(file, audio, fetch) == {Outcome(file, "fetch", fetch)}

\* Lines 389-392 and 442-445: the fetch raised, or its status is not 200; the
\* writer prints and goes on to audio.save().
SkipCover(file, audio, fetch) == Saved(file, audio, fetch)

\* Lines 374-388 and 421-441: the content, cleaned, becomes the cover.
EmbedCover(file, audio, content, jpeg, png) ==
    UNION { Saved(file,
                  [audio EXCEPT !.covers =
                      <<[data |-> d, format |-> CoverFormat(d, jpeg, png)]>>],
                  "ok") : d \in CleanResults(content) }

\* if thumbnail_url: try: response = requests.get(...) ...
WithCover(file, audio, thumbnail_url, jpeg, png) ==
    IF ~Truthy(thumbnail_url) THEN Saved(file, audio, "none")
    ELSE UNION { IF r.how = "ok"
                 THEN EmbedCover(file, audio, r.content, jpeg, png)
                 ELSE SkipCover(file, audio, r.how) : r \in Responses }

\* audio = MP4(file_path), the five tags, the cover, audio.save()
write_m4a_metadata(file, md, thumbnail_url) ==
    IF ~file.readable THEN {Outcome(file, "open", "none")}
    ELSE WithCover(file, [file EXCEPT !.tags = TagsAfter(file.tags, md)],
                   thumbnail_url, "FORMAT_JPEG", "FORMAT_PNG")

\* audio = MP3(file_path, ...), the five frames, the APIC frame, audio.save()
write_mp3_metadata(file, md, thumbnail_url) ==
    IF ~file.readable THEN {Outcome(file, "open", "none")}
    ELSE WithCover(file, [file EXCEPT !.tags = TagsAfter(file.tags, md)],
                   thumbnail_url, "image/jpeg", "image/png")

\* The FLAC writer doing what the M4A writer does with the thumbnail.
write_flac_metadata_WithCover(file, md, thumbnail_url) ==
    IF ~file.readable THEN {Outcome(file, "open", "none")}
    ELSE WithCover(file, [file EXCEPT !.tags = TagsAfter(file.tags, md)],
                   thumbnail_url, "image/jpeg", "image/png")

\* audio = FLAC(file_path), the five fields, audio.save(): thumbnail_url is not read
write_flac_metadata(file, md, thumbnail_url) ==
    IF ~file.readable THEN {Outcome(file, "open", "none")}
    ELSE Saved(file, [file EXCEPT !.tags = TagsAfter(file.tags, md)], "none")

\* The writer for the suffix of the file, none for another suffix; an exception
\* of the writer is caught and printed (lines 350-351).
write_metadata_to_file(file, md, thumbnail_url) ==
    LET file_ext == Lower(Suffix(file.name))
    IN  IF file_ext = Chars(".m4a") THEN write_m4a_metadata(file, md, thumbnail_url)
        ELSE IF file_ext = Chars(".mp3") THEN write_mp3_metadata(file, md, thumbnail_url)
        ELSE IF file_ext = Chars(".flac") THEN write_flac_metadata(file, md, thumbnail_url)
        ELSE {Outcome(file, "none", "none")}

\* The test of line 770 without its second half.
MayRename_NoExistsTest(files, expected_filename, new_filename) ==
    new_filename # expected_filename

\* if new_filename != expected_filename and not os.path.exists(new_filename)
MayRename(files, expected_filename, new_filename) ==
    new_filename # expected_filename /\ ~Exists(files, new_filename)

\* os.rename(old, new): the file goes by its new name, in the place of a file
\* of that name if there is one.
Renamed(files, old, new) ==
    {f \in files : f.name # old /\ f.name # new}
        \cup {[FileAt(files, old) EXCEPT !.name = new]}

(***************************************************************************)
(* What the download flows are called with: the tracks yt-dlp has for the  *)
(* url, the format, and the files the directory holds already.             *)
(***************************************************************************)
MaxEntries == 2

\* An info record with a title, an artist and an uploader, the rest absent.
InfoOf(title, artist, uploader) ==
    [ title |-> title, artist |-> artist, creator |-> None, track |-> None,
      alt_title |-> None, description |-> None, uploader |-> uploader,
      channel |-> None, album |-> None, upload_date |-> None, release_year |-> 0,
      categories |-> <<>>, duration |-> 0 ]

\* A track: its info record (the fields enhance_metadata reads, and apart from
\* them the ones get_best_thumbnail_url reads) and the name prepare_filename
\* makes for it from the template '%(uploader)s - %(title)s.%(ext)s'.
Tracks ==
    { [ info |-> InfoOf(Chars("So/ng?"), None, Chars("Ado - Topic")),
        thumbs |-> [has_thumbnails |-> TRUE, thumbnail |-> None,
                    thumbnails |-> <<Thumb(Chars("maxresdefault"),
                                           Chars("v/maxresdefault.jpg"), 1920, 1080)>>],
        prepared |-> Chars("Ado - Topic - So_ng.webm") ],
      [ info |-> InfoOf(Chars("Song"), None, Chars("Ado")),
        thumbs |-> [has_thumbnails |-> FALSE, thumbnail |-> None, thumbnails |-> <<>>],
        prepared |-> Chars("Ado - Song.webm") ] }

\* A None among the entries of a playlist.
NoEntry == [none |-> TRUE]

NotNone(entry) == entry # NoEntry

RECURSIVE EntryLists(_)
\* The lists of at most n entries.
EntryLists(n) ==
    IF n = 0 THEN {<<>>}
    ELSE EntryLists(n - 1)
         \cup {Append(l, e) : l \in EntryLists(n - 1), e \in Tracks \cup {NoEntry}}

Formats == {"best", "mp3", "m4a", "flac"}

NoTags == [k \in TagFields |-> None]

\* The tags of a file that has some before the flow writes any.
OldTags == [NoTags EXCEPT !["title"] = Chars("Old"), !["date"] = Chars("1999")]

\* A file that was in the directory before the flow: it has the name the
\* flow makes for the tracks above.
OtherFile(format) ==
    [ name |-> ExpectedFilename(Chars("Ado - Song.webm"), format), tags |-> OldTags,
      covers |-> <<>>, readable |-> TRUE, origin |-> "other" ]

\* What ydl.download leaves under the name: a file mutagen can open or not,
\* with tags of its own or none.
Downloads(name) ==
    { [ name |-> name, tags |-> tg, covers |-> <<>>, readable |-> TRUE,
        origin |-> "download" ] : tg \in {NoTags, OldTags} }
    \cup { [ name |-> name, tags |-> NoTags, covers |-> <<>>, readable |-> FALSE,
             origin |-> "download" ] }

\* The locals of the flow of track i, before it has set any.
NewCur(i) ==
    [ i |-> i, enhanced_metadata |-> IdleRec, expected_filename |-> Idle,
      thumbnail_url |-> Idle ]

DownloadInit ==
    /\ fn \in {"download_single", "download_playlist"}
    /\ format_type \in Formats
    /\ source \in
          IF fn = "download_single"
          THEN {[has_entries |-> FALSE, entries |-> <<tr>>] : tr \in Tracks}
          ELSE {[has_entries |-> TRUE, entries |-> l] : l \in EntryLists(MaxEntries)}
               \cup {[has_entries |-> FALSE, entries |-> <<>>]}
    /\ fs \in {{}, {OtherFile(format_type)}}
    /\ dpc = IF fn = "download_single" THEN "extract_info" ELSE "playlist"
    /\ entries = IF fn = "download_single" THEN source.entries ELSE <<>>
    /\ cur = IF fn = "download_single" THEN NewCur(1) ELSE IdleRec
    /\ successful_downloads = 0
    /\ failed_downloads = 0
    /\ events = <<>>
    /\ artistArg = Idle /\ cleaned = Idle /\ recleaned = Idle
    /\ info_dict = IdleRec /\ metadata = IdleRec
    /\ thumb_info = IdleRec /\ thumb_ret = Idle
    /\ image_data = IdleRec /\ img = IdleRec /\ pc = "idle" /\ image_ret = IdleRec
    /\ raised = <<>>

(***************************************************************************)
(* The steps of the flows.  Each step goes well or raises; yt-dlp, the     *)
(* network and the disk decide which.                                      *)
(***************************************************************************)
callVars == <<fn, format_type, source>>
counters == <<successful_downloads, failed_downloads>>
notDownload == <<cleanVars, metaVars, thumbVars, imageVars>>

\* The handler that lets the exception go on to the caller of the method.
ExceptHandler_Reraise(step) == "raised"

\* except Exception as e: print(...) (lines 779-780 and 909-910): the method
\* returns.
ExceptHandler(step) == "returned"

\* The loop that ends at the first track that fails.
AfterTrack_StopOnFailure(i, total, ok) ==
    IF ok /\ i < total THEN "extract_info" ELSE "summary"

\* for i, entry in enumerate(entries, 1): the next entry, or the summary after
\* the last one, whether track i went well or not (continue, line 899).
AfterTrack(i, total, ok) == IF i < total THEN "extract_info" ELSE "summary"

\* What an event of the flow records: its kind, the track, and the rest.
Event(kind, rest) == [ev |-> kind, i |-> cur.i, what |-> rest]

\* The end of the flow of track cur.i in download_playlist: the counter, and
\* the next track.
PlaylistGoesOn(ok) ==
    /\ successful_downloads' = successful_downloads + (IF ok THEN 1 ELSE 0)
    /\ failed_downloads' = failed_downloads + (IF ok THEN 0 ELSE 1)
    /\ dpc' = AfterTrack(cur.i, Len(entries), ok)
    /\ cur' = IF cur.i < Len(entries) THEN NewCur(cur.i + 1) ELSE cur

\* A step of the track raises.  In download_single the handler of lines 779-780
\* prints; in the playlist download_single_from_playlist raises again (line
\* 959) and the handler of lines 896-899 counts the failure.
TrackFails(step) ==
    /\ events' = Append(events, Event("error", step))
    /\ IF fn = "download_single"
       THEN dpc' = ExceptHandler(step) /\ UNCHANGED <<cur, counters>>
       ELSE PlaylistGoesOn(FALSE)

\* The flow of the track reaches its end: line 777, or lines 893-894.
TrackDone(evs) ==
    /\ events' = evs \o <<Event("completed", "")>>
    /\ IF fn = "download_single"
       THEN dpc' = "returned" /\ UNCHANGED <<cur, counters>>
       ELSE PlaylistGoesOn(TRUE)

\* download_playlist, lines 867-881: the entries that are not None.
ExtractPlaylist ==
    /\ dpc = "playlist"
    /\ \/ /\ source.has_entries
          /\ entries' = SelectSeq(source.entries, NotNone)
          /\ IF entries' = <<>>
             THEN dpc' = "summary" /\ cur' = cur
             ELSE dpc' = "extract_info" /\ cur' = NewCur(1)
          /\ UNCHANGED events
       \/ /\ ~source.has_entries
          /\ events' = Append(events, [ev |-> "no entries", i |-> 0, what |-> ""])
          /\ dpc' = "returned"
          /\ UNCHANGED <<entries, cur>>
       \/ /\ events' = Append(events, [ev |-> "error", i |-> 0, what |-> "playlist"])
          /\ dpc' = ExceptHandler("playlist")
          /\ UNCHANGED <<entries, cur>>
    /\ UNCHANGED <<callVars, fs, counters, notDownload>>

\* info = ydl.extract_info(url, download=False)
ExtractInfo ==
    /\ dpc = "extract_info"
    /\ \/ dpc' = "enhance_metadata" /\ UNCHANGED <<cur, counters, events>>
       \/ TrackFails("extract_info")
    /\ UNCHANGED <<callVars, fs, entries, notDownload>>

\* enhanced_metadata = self.enhance_metadata(info)
Enhance ==
    /\ dpc = "enhance_metadata"
    /\ \/ /\ cur' = [cur EXCEPT !.enhanced_metadata =
                                    enhance_metadata(entries[cur.i].info)]
          /\ dpc' = "download"
          /\ UNCHANGED <<counters, events>>
       \/ TrackFails("enhance_metadata")
    /\ UNCHANGED <<callVars, fs, entries, notDownload>>

\* ydl.download([url]) and the name of its file (lines 749-759): the file is
\* there afterwards, or it is not (ignoreerrors), or download raises.
Download ==
    /\ dpc = "download"
    /\ LET name == ExpectedFilename(entries[cur.i].prepared, format_type)
       IN  \/ /\ \E file \in Downloads(name) :
                    fs' = {f \in fs : f.name # name} \cup {file}
              /\ cur' = [cur EXCEPT !.expected_filename = name]
              /\ dpc' = "thumbnail"
              /\ UNCHANGED <<counters, events>>
           \/ /\ cur' = [cur EXCEPT !.expected_filename = name]
              /\ dpc' = "thumbnail"
              /\ UNCHANGED <<fs, counters, events>>
           \/ TrackFails("download") /\ UNCHANGED fs
    /\ UNCHANGED <<callVars, entries, notDownload>>

\* thumbnail_url = self.get_best_thumbnail_url(info)
SelectThumbnail ==
    /\ dpc = "thumbnail"
    /\ \/ /\ cur' = [cur EXCEPT !.thumbnail_url =
                                    get_best_thumbnail_url(entries[cur.i].thumbs)]
          /\ dpc' = "write_metadata"
          /\ UNCHANGED <<counters, events>>
       \/ TrackFails("thumbnail")
    /\ UNCHANGED <<callVars, fs, entries, notDownload>>

\* WriteMetadata with the rename of download_single in the playlist flow as well.
WriteMetadata_PlaylistRenames ==
    /\ dpc = "write_metadata"
    /\ IF Exists(fs, cur.expected_filename)
       THEN LET file == FileAt(fs, cur.expected_filename)
            IN  \E o \in write_metadata_to_file(file, cur.enhanced_metadata,
                                                 cur.thumbnail_url) :
                  /\ fs' = (fs \ {file}) \cup {o.file}
                  /\ events' = Append(events,
                                      Event("write",
                                            [raised |-> o.raised, fetch |-> o.fetch,
                                             before |-> file, after |-> o.file,
                                             metadata |-> cur.enhanced_metadata,
                                             thumbnail_url |-> cur.thumbnail_url]))
                  /\ dpc' = "rename"
                  /\ UNCHANGED <<cur, counters>>
       ELSE fs' = fs /\ TrackDone(events)
    /\ UNCHANGED <<callVars, entries, notDownload>>

\* if os.path.exists(expected_filename): self.write_metadata_to_file(...), which
\* never raises.  download_single goes on to the rename; for
\* download_single_from_playlist the track is done.
WriteMetadata ==
    /\ dpc = "write_metadata"
    /\ IF Exists(fs, cur.expected_filename)
       THEN LET file == FileAt(fs, cur.expected_filename)
            IN  \E o \in write_metadata_to_file(file, cur.enhanced_metadata,
                                                 cur.thumbnail_url) :
                  LET written == Append(events,
                                     Event("write",
                                           [raised |-> o.raised, fetch |-> o.fetch,
                                            before |-> file, after |-> o.file,
                                            metadata |-> cur.enhanced_metadata,
                                            thumbnail_url |-> cur.thumbnail_url]))
                  IN  /\ fs' = (fs \ {file}) \cup {o.file}
                      /\ IF fn = "download_single"
                         THEN /\ events' = written
                              /\ dpc' = "rename"
                              /\ UNCHANGED <<cur, counters>>
                         ELSE TrackDone(written)
       ELSE fs' = fs /\ TrackDone(events)
    /\ UNCHANGED <<callVars, entries, notDownload>>

\* download_single, lines 768-777: the rename to the clean name, if there is
\* one to do; os.rename may raise, which is caught and printed.
Rename ==
    /\ dpc = "rename"
    /\ LET expected_filename == cur.expected_filename
           new_filename == generate_clean_filename(cur.enhanced_metadata,
                                                   expected_filename)
           renamed(done) == Append(events,
                                   Event("rename", [from |-> expected_filename,
                                                    to |-> new_filename,
                                                    done |-> done]))
       IN  IF MayRename(fs, expected_filename, new_filename)
           THEN \/ /\ fs' = Renamed(fs, expected_filename, new_filename)
                   /\ TrackDone(renamed(TRUE))
                \/ /\ fs' = fs
                   /\ TrackDone(renamed(FALSE))
           ELSE fs' = fs /\ TrackDone(events)
    /\ UNCHANGED <<callVars, entries, notDownload>>

\* download_playlist, lines 901-907: the summary, after the last entry.
Summary ==
    /\ dpc = "summary"
    /\ events' = Append(events, [ev |-> "summary", i |-> 0,
                                 what |-> <<successful_downloads, failed_downloads>>])
    /\ dpc' = "returned"
    /\ UNCHANGED <<callVars, fs, entries, cur, counters, notDownload>>

DownloadNext ==
    \/ ExtractPlaylist \/ ExtractInfo \/ Enhance \/ Download
    \/ SelectThumbnail \/ WriteMetadata \/ Rename \/ Summary

SpecDownload == DownloadInit /\ [][DownloadNext]_vars

(***************************************************************************)
(* Claims about clean_artist_name (SpecClean).                             *)
(***************************************************************************)
\* C4: artist cleanup is idempotent: for every input string s,
\* clean_artist_name(clean_artist_name(s)) equals clean_artist_name(s).
C4_CleanupIdempotent == recleaned # Idle => recleaned = cleaned

(***************************************************************************)
(* Claims about enhance_metadata (SpecMeta).                               *)
(***************************************************************************)
\* The value of step 1: info_dict.get('artist') or info_dict.get('creator').
FirstValue(info) == Or(Get(info, "artist", None), Get(info, "creator", None))

\* v is an "Artist - Title" value whose left segment is a non-empty CJK-free name.
HasLatinLeftSegment(v) ==
    /\ Truthy(v)
    /\ Contains(v, Chars(" - "))
    /\ Truthy(Strip(Split(v, Chars(" - "))[1]))
    /\ ~has_non_latin_chars(Strip(Split(v, Chars(" - "))[1]))

\* The description holds an artist marker followed, on the first line that holds
\* that marker, by a non-empty CJK-free text.
HasLatinMarkerText(description) ==
    /\ Truthy(description)
    /\ \E i \in 1..Len(artist_patterns) :
          LET lines == LinesWith(Split(description, <<"\n">>), artist_patterns[i])
          IN  /\ lines # <<>>
              /\ Truthy(AfterMarker(lines[1], artist_patterns[i]))
              /\ ~has_non_latin_chars(AfterMarker(lines[1], artist_patterns[i]))

\* C1: for every raw info record (any subset of fields absent or empty),
\* enhance_metadata returns a record whose 'artist' and 'title' values are both
\* present and non-empty strings.
C1_ArtistAndTitleNonEmpty ==
    metadata # IdleRec => Truthy(metadata.artist) /\ Truthy(metadata.title)

\* C5: for every raw info record, the artist returned by enhance_metadata
\* contains none of the eleven branding substrings.
C5_NoBrandingInArtist ==
    metadata # IdleRec =>
        \A i \in 1..Len(patterns_to_remove) :
            ~Contains(metadata.artist, patterns_to_remove[i])

\* C6: whenever the artist/creator candidate contains a CJK character and a
\* CJK-free alternative is available (the left segment of an "Artist - Title"
\* value in track or in alt_title, or the text after an artist marker in
\* description), the final artist contains no CJK character.
C6_LatinAlternativeUsed ==
    ( /\ metadata # IdleRec
      /\ has_non_latin_chars(FirstValue(info_dict))
      /\ \/ HasLatinLeftSegment(info_dict.track)
         \/ HasLatinLeftSegment(info_dict.alt_title)
         \/ HasLatinMarkerText(info_dict.description) )
    => ~has_non_latin_chars(metadata.artist)

\* C10: artist resolution stops at the first accepted value: when the record has
\* a non-empty 'artist' (or, with artist empty, a non-empty 'creator') that
\* contains no CJK character, the final artist is the branding cleanup of exactly
\* that value, whatever title, track, alt_title, description, uploader and
\* channel contain.
C10_FirstValueWins ==
    ( /\ metadata # IdleRec
      /\ Truthy(FirstValue(info_dict))
      /\ ~has_non_latin_chars(FirstValue(info_dict)) )
    => metadata.artist = clean_artist_name(FirstValue(info_dict))

\* C10's case: a CJK-free artist beside a title that splits into another left
\* segment and an uploader, with the metadata resolved.
C10_Witness ==
    /\ metadata # IdleRec
    /\ info_dict.artist = Chars("Ado")
    /\ info_dict.title = <<"U+6771", "U+4EAC">> \o Chars(" - Song")
    /\ info_dict.uploader = Chars("VEVO")
    /\ metadata.artist = Chars("Ado")


\* The left segment of a title that holds ' - ': the text before the first
\* ' - ', trimmed.
LeftSegment(title) == Strip(SubSeq(title, 1, Find(title, Chars(" - "), 1) - 1))

\* The case of C11: no artist and no creator, a title with ' - ' whose left
\* segment is under 50 characters long and CJK-free.
TitleSplitCase(info) ==
    /\ ~Truthy(FirstValue(info))
    /\ Truthy(info.title)
    /\ Contains(info.title, Chars(" - "))
    /\ Len(LeftSegment(info.title)) < 50
    /\ ~has_non_latin_chars(LeftSegment(info.title))

\* C11 as stated: when artist and creator are absent and title contains ' - ',
\* and the left segment of the title is shorter than 50 characters and CJK-free,
\* the final artist is the branding cleanup of that left segment and the title
\* is returned unchanged.
C11_TitleLeftSegmentIsArtist ==
    (metadata # IdleRec /\ TitleSplitCase(info_dict))
    => /\ metadata.artist = clean_artist_name(LeftSegment(info_dict.title))
       /\ metadata.title = info_dict.title

\* C11 amended: the same for a left segment that is not empty; an empty left
\* segment counts as no artist and the later sources are used.
C11_NonEmptyLeftSegmentIsArtist ==
    (metadata # IdleRec /\ TitleSplitCase(info_dict)
        /\ Truthy(LeftSegment(info_dict.title)))
    => /\ metadata.artist = clean_artist_name(LeftSegment(info_dict.title))
       /\ metadata.title = info_dict.title

\* C11's case: the title gives 'Ado Official', cleaned to 'Ado', although the
\* record has an uploader.
C11_Witness ==
    /\ metadata # IdleRec
    /\ info_dict.artist = None /\ info_dict.creator = None
    /\ info_dict.title = Chars("Ado Official - Song - Live")
    /\ info_dict.uploader = Chars("VEVO")
    /\ metadata.artist = Chars("Ado")
    /\ metadata.title = Chars("Ado Official - Song - Live")

\* The text after the first `pattern` of the line, up to the next `pattern`, a
\* bullet or the end of the line, trimmed.
TextAfter(line, pattern) ==
    LET from == Find(line, pattern, 1) + Len(pattern)
        stops == {j \in from..Len(line) :
                     MatchAt(line, pattern, j) \/ line[j] = "U+2022"}
        to == IF stops = {} THEN Len(line)
              ELSE (CHOOSE j \in stops : \A k \in stops : j <= k) - 1
    IN  Strip(SubSeq(line, from, to))

\* The lines of the description: its parts between newlines.
Lines(description) == Split(description, <<"\n">>)

\* The non-empty texts that follow an album marker on a line of the description.
AlbumTexts(description) ==
    { TextAfter(Lines(description)[k], album_patterns[i]) :
        <<k, i>> \in { ki \in (1..Len(Lines(description))) \X (1..Len(album_patterns)) :
                         Contains(Lines(description)[ki[1]], album_patterns[ki[2]]) } }
    \ {<<>>}

\* The text after the first album marker found: 'Album:' is looked for before
\* its accented form, on the first line that holds it; None without a marker.
FirstAlbumText(description) ==
    LET found == {i \in 1..Len(album_patterns) : Contains(description, album_patterns[i])}
    IN  IF found = {} THEN None
        ELSE LET i == CHOOSE i \in found : \A j \in found : i <= j
                 k == CHOOSE k \in 1..Len(Lines(description)) :
                        /\ Contains(Lines(description)[k], album_patterns[i])
                        /\ \A j \in 1..(k - 1) :
                              ~Contains(Lines(description)[j], album_patterns[i])
             IN  TextAfter(Lines(description)[k], album_patterns[i])

C13_DateResolution ==
    metadata # IdleRec =>
        IF info_dict.release_year # 0
        THEN metadata.date = IntToStr(info_dict.release_year)
        ELSE IF Truthy(info_dict.upload_date)
             THEN /\ metadata.date # None
                  /\ Len(metadata.date) <= 4
                  /\ metadata.date \o SubSeq(info_dict.upload_date, 5,
                                              Len(info_dict.upload_date))
                        = info_dict.upload_date
             ELSE metadata.date = None

\* C13's case: release_year 2019 beside upload_date 20200101 gives date 2019.
C13_Witness ==
    /\ metadata # IdleRec
    /\ info_dict.release_year = 2019
    /\ info_dict.upload_date = Chars("20200101")
    /\ metadata.date = Chars("2019")

\* 'Music' in categories
HasMusic(categories) == \E i \in 1..Len(categories) : categories[i] = Chars("Music")

\* C14 as stated: the genre is 'Music' when categories is absent or empty and
\* when categories contains 'Music'; when categories is non-empty and does not
\* contain 'Music', the genre is the first category.
C14_GenreFirstUnlessMusic ==
    metadata # IdleRec =>
        IF info_dict.categories = <<>> \/ HasMusic(info_dict.categories)
        THEN metadata.genre = Chars("Music")
        ELSE metadata.genre = info_dict.categories[1]

\* C14 amended: the genre is 'Music' when categories is absent or empty and
\* when categories does not contain 'Music'; when categories contains 'Music',
\* the genre is the first category.
C14_GenreFirstWhenMusic ==
    metadata # IdleRec =>
        IF info_dict.categories # <<>> /\ HasMusic(info_dict.categories)
        THEN metadata.genre = info_dict.categories[1]
        ELSE metadata.genre = Chars("Music")

\* C14's case: categories holds 'Music' after another category, which is the genre.
C14_Witness ==
    /\ metadata # IdleRec
    /\ Len(info_dict.categories) = 2
    /\ info_dict.categories[2] = Chars("Music")
    /\ metadata.genre = Chars("Entertainment")

(***************************************************************************)
(* Claims about get_best_thumbnail_url (SpecThumb).                        *)
(***************************************************************************)
\* The positions in `thumbnails` of the candidates that hold tier i.
TierHits(thumbnails, i) ==
    {j \in 1..Len(thumbnails) : PatternIn(thumbnails[j], preferred_patterns[i])}

\* The tiers some candidate holds.
TiersHit(thumbnails) ==
    {i \in 1..Len(preferred_patterns) : TierHits(thumbnails, i) # {}}

Least(S) == CHOOSE x \in S : \A y \in S : x <= y

\* The list in the order q (a permutation of its positions).
Permuted(thumbnails, q) == [j \in 1..Len(thumbnails) |-> thumbnails[q[j]]]

\* The positions of the candidates with both dimensions positive.
Sized(thumbnails) ==
    {j \in 1..Len(thumbnails) : thumbnails[j].width > 0 /\ thumbnails[j].height > 0}

\* C7: for every non-empty candidate list in which some candidate's id or url
\* holds a tier substring (case-insensitively), the result is the url of the first
\* candidate, in list order, that matches the highest-priority matching tier; and
\* the result is the same for every permutation of the list so long as each tier
\* has at most one matching candidate.  The permutation part is checked in a
\* stronger form: it is enough that the highest-priority matching tier has one
\* matching candidate (a candidate "maxresdefault" also holds "maxres" and
\* "default", so the list [default, maxresdefault] is covered).
C7_HighestTierFirstCandidate ==
    ( /\ thumb_ret # Idle
      /\ thumb_info.has_thumbnails
      /\ TiersHit(thumb_info.thumbnails) # {} )
    => LET l == thumb_info.thumbnails
           best == Least(TiersHit(l))
       IN  /\ thumb_ret = l[Least(TierHits(l, best))].url
           /\ Cardinality(TierHits(l, best)) = 1
              => \A q \in Permutations(1..Len(l)) :
                    get_best_thumbnail_url([thumb_info EXCEPT !.thumbnails = Permuted(l, q)])
                    = thumb_ret

\* C7's case: the lowest tier listed before the highest one; the highest is returned.
C7_Witness ==
    /\ thumb_ret = Chars("v/maxresdefault.jpg")
    /\ Len(thumb_info.thumbnails) = 3
    /\ thumb_info.thumbnails[1].id = Chars("default")
    /\ thumb_info.thumbnails[2].id = Chars("1")
    /\ thumb_info.thumbnails[3].id = Chars("maxresdefault")

\* C8: when no candidate matches any tier substring and at least one candidate
\* has width > 0 and height > 0, the result is the url of the candidate of largest
\* width*height among those, the first in the list among those of equal largest area.
C8_LargestAreaFirstOfEqual ==
    ( /\ thumb_ret # Idle
      /\ thumb_info.has_thumbnails
      /\ TiersHit(thumb_info.thumbnails) = {}
      /\ Sized(thumb_info.thumbnails) # {} )
    => LET l == thumb_info.thumbnails
           largest == {j \in Sized(l) : \A k \in Sized(l) : Area(l[j]) >= Area(l[k])}
       IN  thumb_ret = l[Least(largest)].url

\* C8's case: two candidates of equal largest area (800x600 and 600x800) after an
\* unsized one; the first of the two is returned.
C8_Witness ==
    /\ thumb_ret = Chars("v/0.jpg")
    /\ Len(thumb_info.thumbnails) = 3
    /\ thumb_info.thumbnails[1].id = Chars("4")
    /\ thumb_info.thumbnails[2].id = Chars("0")
    /\ thumb_info.thumbnails[3].id = Chars("2")

\* C9: the result is the fallback 'thumbnail' value when the candidate list is
\* empty or absent, and otherwise the url of one of the candidates (the first
\* candidate's url when no tier matches and no candidate has both dimensions
\* positive); it is never a value that is neither a candidate url nor the fallback.
C9_CandidateUrlOrFallback ==
    thumb_ret # Idle =>
        LET l == thumb_info.thumbnails
        IN  /\ (~thumb_info.has_thumbnails \/ l = <<>>) => thumb_ret = thumb_info.thumbnail
            /\ (thumb_info.has_thumbnails /\ l # <<>>)
               => \E j \in 1..Len(l) : thumb_ret = l[j].url
            /\ (thumb_info.has_thumbnails /\ l # <<>> /\ TiersHit(l) = {} /\ Sized(l) = {})
               => thumb_ret = l[1].url

\* C9's case: no tier and no sized candidate, a fallback present; the first
\* candidate's url is returned, not the fallback.
C9_Witness ==
    /\ thumb_ret = Chars("v/6.jpg")
    /\ thumb_info.thumbnail = Chars("v/fallback.jpg")
    /\ Len(thumb_info.thumbnails) = 2
    /\ thumb_info.thumbnails[1].id = Chars("4")
    /\ thumb_info.thumbnails[2].id = Chars("3")

(***************************************************************************)
(* Claims about clean_thumbnail_image (SpecImage).                         *)
(***************************************************************************)
\* The steps of clean_thumbnail_image whose exception reaches its own handler.
OuterSteps == {"open", "convert", "crop", "resize", "save"}

\* Some step of the function's own try block raised.
OuterStepRaised == \E i \in 1..Len(raised) : raised[i] \in OuterSteps

\* C2: for every successfully decoded input image of any width and height (any
\* aspect ratio), clean_thumbnail_image outputs an image whose width and height
\* are both exactly 1000 and whose bytes start with the JPEG signature FF D8.
\* Stated for the runs in which no step raised at all.
C2_Output1000x1000Jpeg ==
    (pc = "done" /\ image_data.decodable /\ raised = <<>>)
    => /\ image_ret.image.width = 1000
       /\ image_ret.image.height = 1000
       /\ SubSeq(image_ret.sig, 1, 2) = <<255, 216>>

\* C3: clean_thumbnail_image never raises to its caller for any input bytes: if
\* decoding, squaring, resizing or encoding fails, the returned value is exactly
\* the original input bytes.  Every position but the return has a next step,
\* the function ends only by returning a value, and after a failure of a step of
\* its try block that value is image_data.
C3_NeverRaisesReturnsOriginal ==
    /\ pc # "done" => ENABLED ImageNext
    /\ pc = "done" => image_ret # IdleRec
    /\ (pc # "open" /\ OuterStepRaised) => (pc = "done" /\ image_ret = image_data)

\* C3's case: the image went through every stage and the encoding failed; the
\* caller has the input bytes back.
C3_Witness ==
    /\ pc = "done"
    /\ raised = <<"save">>
    /\ Len(img.applied) = 4
    /\ img.width = target_size
    /\ image_data.format = "PNG"
    /\ image_ret = image_data

(***************************************************************************)
(* Claims about the download flows (SpecDownload).                         *)
(***************************************************************************)
\* The events of one kind, in order.
IsWrite(e) == e.ev = "write"
IsRename(e) == e.ev = "rename"
IsTrackEnd(e) == e.i > 0 /\ (e.ev = "error" \/ e.ev = "completed")
IsError(e) == e.i > 0 /\ e.ev = "error"
IsCompleted(e) == e.ev = "completed"

\* The suffix of the name of a file, in lower case.
Ext(file) == Lower(Suffix(file.name))

\* C15: in download_single the rename of the downloaded file is attempted only
\* after the tag write for that file has completed successfully; if writing
\* tags fails, no rename is performed.
C15_RenameOnlyAfterSuccessfulWrite ==
    \A k \in 1..Len(events) :
        IsRename(events[k]) =>
            \E j \in 1..(k - 1) :
                /\ IsWrite(events[j])
                /\ events[j].i = events[k].i
                /\ events[j].what.raised = "none"

\* C16: in download_single a rename to the generated clean filename is performed
\* only when no file exists at the target path and the target differs from
\* the current path; the rename step leaves every other file of the directory,
\* one at the target path included, as it is.
C16_RenameNeverReplaces ==
    [][ dpc = "rename" =>
          LET new_filename == generate_clean_filename(cur.enhanced_metadata,
                                                      cur.expected_filename)
          IN  /\ fs' # fs => /\ ~Exists(fs, new_filename)
                             /\ new_filename # cur.expected_filename
                             /\ Exists(fs', new_filename)
              /\ \A f \in fs : f.name # cur.expected_filename => f \in fs' ]_vars

\* C16's case: download_single has returned; the file it downloaded and tagged
\* is still under its own name, because the directory held another file under
\* the clean name, which is as it was.
C16_Witness ==
    /\ fn = "download_single" /\ dpc = "returned"
    /\ \E e \in {events[k] : k \in 1..Len(events)} : IsWrite(e)
    /\ ~\E e \in {events[k] : k \in 1..Len(events)} : IsRename(e)
    /\ OtherFile(format_type) \in fs
    /\ cur.expected_filename # OtherFile(format_type).name
    /\ generate_clean_filename(cur.enhanced_metadata, cur.expected_filename)
          = OtherFile(format_type).name
    /\ Exists(fs, cur.expected_filename)

\* C17: for .m4a and .mp3 files, when fetching the thumbnail fails (the request
\* raises or returns a status other than 200), no cover art is embedded, all
\* present text tags are set and the file is saved (unless audio.save() itself
\* raises).
C17_FetchFailureKeepsTags ==
    \A k \in 1..Len(events) :
        LET w == events[k].what
        IN  ( /\ IsWrite(events[k])
              /\ Ext(w.before) \in {Chars(".m4a"), Chars(".mp3")}
              /\ w.fetch \in {"raised", "status"}
              /\ w.raised # "save" )
            => /\ w.raised = "none"
               /\ w.after.covers = w.before.covers
               /\ \A f \in TagFields :
                     Truthy(w.metadata[f]) => w.after.tags[f] = w.metadata[f]
               /\ dpc = "rename" => w.after \in fs

\* C17's case: an .mp3 whose cover request was answered with a status other
\* than 200: the artist tag is written and there is no cover.
C17_Witness ==
    \E k \in 1..Len(events) :
        /\ IsWrite(events[k])
        /\ Ext(events[k].what.before) = Chars(".mp3")
        /\ events[k].what.fetch = "status"
        /\ events[k].what.raised = "none"
        /\ events[k].what.after.tags["artist"] = Chars("Ado")
        /\ events[k].what.after.covers = <<>>
        /\ events[k].what.after \in fs

\* The steps of one track.
TrackSteps ==
    {"extract_info", "enhance_metadata", "download", "thumbnail", "write_metadata"}

\* C18: download_playlist processes the entries that are not None one after
\* the other, in order; an entry whose download fails is counted as failed and
\* the next entry is processed; at the summary successful + failed is the
\* number of entries, and the flow is always at one of its steps or has returned.
C18_PlaylistCountsEveryEntry ==
    fn = "download_playlist" =>
        LET ends == SelectSeq(events, IsTrackEnd)
        IN  /\ dpc \in TrackSteps \cup {"summary"} =>
                   entries = SelectSeq(source.entries, NotNone)
            /\ \A k \in 1..Len(ends) : ends[k].i = k
            /\ Len(ends) <= Len(entries)
            /\ successful_downloads = Len(SelectSeq(events, IsCompleted))
            /\ failed_downloads = Len(SelectSeq(events, IsError))
            /\ dpc \in TrackSteps => cur.i = Len(ends) + 1 /\ cur.i <= Len(entries)
            /\ dpc = "summary" =>
                   successful_downloads + failed_downloads = Len(entries)
            /\ (dpc = "returned" /\ events[Len(events)].ev = "summary") =>
                   /\ events[Len(events)].what
                         = <<successful_downloads, failed_downloads>>
                   /\ successful_downloads + failed_downloads = Len(entries)
            /\ dpc \in {"playlist", "summary", "returned"} \cup TrackSteps

\* C18's case: a playlist of two entries whose first download failed and whose
\* second succeeded, after the summary.
C18_Witness ==
    /\ fn = "download_playlist" /\ dpc = "returned"
    /\ Len(entries) = 2
    /\ events[Len(events)].ev = "summary"
    /\ successful_downloads = 1 /\ failed_downloads = 1
    /\ \E j \in 1..Len(events), k \in 1..Len(events) :
          /\ j < k
          /\ IsError(events[j]) /\ events[j].i = 1
          /\ IsCompleted(events[k]) /\ events[k].i = 2

\* C19: no failure of a step (extraction, download, thumbnail selection, tag
\* write, rename) leaves download_single or download_playlist by an exception:
\* the failure is reported, and the call is at one of its steps, with an entry
\* to work on, until it returns normally.
C19_FlowsReturnNormally ==
    fn \in {"download_single", "download_playlist"} =>
        /\ dpc # "raised"
        /\ dpc \in {"playlist", "rename", "summary", "returned"} \cup TrackSteps
        /\ dpc \in {"rename"} \cup TrackSteps => cur.i \in 1..Len(entries)
        /\ dpc = "returned" =>
               /\ events # <<>>
               /\ events[Len(events)].ev
                     \in {"completed", "error", "summary", "no entries"}
        /\ \A k \in 1..Len(events) :
               (fn = "download_single" /\ events[k].ev = "error") =>
                   k = Len(events) /\ dpc = "returned"

\* C19's case: download_single whose ydl.download raised has returned.
C19_Witness ==
    /\ fn = "download_single" /\ dpc = "returned"
    /\ events # <<>>
    /\ events[Len(events)].ev = "error"
    /\ events[Len(events)].what = "download"

\* C20: for .flac files no thumbnail is fetched and no cover is embedded; the
\* text tags present in the metadata are set and the tags of absent fields
\* stay as they were in the file.
C20_FlacTextTagsOnly ==
    \A k \in 1..Len(events) :
        LET w == events[k].what
        IN  (IsWrite(events[k]) /\ Ext(w.before) = Chars(".flac")) =>
                /\ w.fetch = "none"
                /\ w.after.covers = w.before.covers
                /\ w.raised = "none" =>
                       \A f \in TagFields :
                           w.after.tags[f] = IF Truthy(w.metadata[f])
                                             THEN w.metadata[f]
                                             ELSE w.before.tags[f]
                /\ w.raised # "none" => w.after = w.before

\* C20's case: a .flac that had a date tag, written for a track that has a
\* thumbnail and no date.
C20_Witness ==
    \E k \in 1..Len(events) :
        /\ IsWrite(events[k])
        /\ Ext(events[k].what.before) = Chars(".flac")
        /\ Truthy(events[k].what.thumbnail_url)
        /\ events[k].what.raised = "none"
        /\ events[k].what.before.tags = OldTags
        /\ ~Truthy(events[k].what.metadata["date"])
        /\ events[k].what.after.tags["date"] = Chars("1999")
        /\ events[k].what.after.tags["title"] = events[k].what.metadata["title"]
        /\ events[k].what.after.covers = <<>>

(***************************************************************************)
(* Claims about auto_crop_black_bars and enhance_image_quality (SpecImage).*)
(***************************************************************************)
Greatest(S) == 0 - Least({0 - x : x \in S})

\* The rows and the columns whose mean luminance is above 25.
ContentRows(im) == {y \in 0..(im.height - 1) : RowSum(im, y) > 25 * im.width}
ContentCols(im) == {x \in 0..(im.width - 1) : ColSum(im, x) > 25 * im.height}

\* The image as Image.open and convert('RGB') hand it to auto_crop_black_bars.
Decoded == [image_data.image EXCEPT !.mode = "RGB"]

EnhanceNames == {"UnsharpMask", "Contrast", "Color", "Brightness"}

\* C22: if the auto-crop stage or the enhancement stage fails at any point
\* (after some of the sub-steps of the enhancement have been applied as well),
\* the image handed to the next stage is the image that stage received, and
\* the pipeline goes on to the next stage.  The image a stage received is the
\* image without enhancements: none is applied before the enhancement stage.
C22_FailedStageHandsOnItsInput ==
    [][ ( /\ Len(raised') = Len(raised) + 1
          /\ raised'[Len(raised')] \in {"auto_crop"} \cup EnhanceNames )
        => /\ img' = [img EXCEPT !.applied = <<>>]
           /\ pc' = IF raised'[Len(raised')] = "auto_crop" THEN "sharpen" ELSE "square"
      ]_vars

(***************************************************************************)
(* Further claims about enhance_metadata (SpecMeta).                       *)
(***************************************************************************)
\* The artist after the field and title steps (steps 1 to 3).
ArtistAfterTitle(info) ==
    ArtistStep3(Get(info, "title", <<>>), ArtistStep2(info, FirstValue(info)))

\* The first artist marker, in the order Artist:, Artista:, By:, Por:, that the
\* description holds, and the first line of the description that holds it.
FirstArtistMarker(description) ==
    artist_patterns[Least({i \in 1..Len(artist_patterns) :
                              Contains(description, artist_patterns[i])})]

FirstMarkerLine(description) ==
    LinesWith(Lines(description), FirstArtistMarker(description))[1]

\* All the text after the first `pattern` of the line, up to a bullet or the
\* end of the line, trimmed.
KeptText(line, pattern) ==
    LET from == Find(line, pattern, 1) + Len(pattern)
        stops == {j \in from..Len(line) : line[j] = "U+2022"}
        to == IF stops = {} THEN Len(line) ELSE Least(stops) - 1
    IN  Strip(SubSeq(line, from, to))

\* The case of C23: after steps 1 to 3 there is no artist or one with CJK
\* characters, and the description holds an artist marker.
MarkerCase(info) ==
    /\ ~Truthy(ArtistAfterTitle(info)) \/ has_non_latin_chars(ArtistAfterTitle(info))
    /\ Truthy(info.description)
    /\ \E i \in 1..Len(artist_patterns) : Contains(info.description, artist_patterns[i])

\* C23: in that case the artist candidate is the text that follows the first
\* matching marker on its line, cut at the end of the line or at the first
\* bullet and trimmed, all of it kept even if the marker occurs again on the
\* line: when that text is not empty and CJK-free, the final artist is its
\* branding cleanup.
C23_MarkerTextKeptWhole ==
    (metadata # IdleRec /\ MarkerCase(info_dict)) =>
        LET text == KeptText(FirstMarkerLine(info_dict.description),
                             FirstArtistMarker(info_dict.description))
        IN  (Truthy(text) /\ ~has_non_latin_chars(text))
            => metadata.artist = clean_artist_name(text)

====
